---- MODULE Spec2Model ----
(***************************************************************************)
(* A model of tomlconfig (src/tomlconfig/__init__.py): the field coercion  *)
(* and merge engine _update, the loader parse with its exception handlers, *)
(* the configclass initializer and configclass_attrs_set.                  *)
(*                                                                         *)
(* One behaviour is one call of parse(cls, conf_path, conf_d_path,         *)
(* ignore_missing) against one file system, followed by the caller's       *)
(* query of configclass_attrs_set.  The arguments and the file system are  *)
(* chosen in Init; the steps of parse are the actions.                     *)
(***************************************************************************)
EXTENDS Integers, Sequences, FiniteSets, TLC

VARIABLES
    is_configclass, \* getattr(cls, IS_DUNDER, False)
    conf_path,      \* argument of parse: a path, or None
    conf_d_path,    \* argument of parse: a path, or None
    ignore_missing, \* argument of parse
    validator,      \* the validator the record type was registered with, or None
    base_doc,       \* file system: what the file at conf_path holds
    dir_listing,    \* file system: what listdir(conf_d_path) returns, in its order
    pc,             \* position inside parse
    self,           \* the instance under construction
    file_path,      \* the local variable file_path of parse
    todo,           \* the entries the for loop of parse has not visited yet
    exc,            \* the exception in flight, or raised to the caller
    result,         \* "none", "returned" or "raised"
    applied,        \* history: the files _update was called with, in order
    validated,      \* history: how many times the validator was invoked
    snapshot        \* what configclass_attrs_set returned to the caller

vars == <<is_configclass, conf_path, conf_d_path, ignore_missing, validator,
          base_doc, dir_listing, pc, self, file_path, todo, exc, result,
          applied, validated, snapshot>>

env == <<is_configclass, conf_path, conf_d_path, ignore_missing, validator,
         base_doc, dir_listing>>

(***************************************************************************)
(* Bounds of the model.                                                    *)
(***************************************************************************)
\* the largest number of entries an overlay directory holds
MaxEntries == 2
\* int() parses the decimal strings of 0..MaxInt
MaxInt == 12

(***************************************************************************)
(* Python values.                                                          *)
(***************************************************************************)
None == "None"

\* A raw TOML value: an int, a str, a list or a dict (table) of scalar items.
RInt(n) == [t |-> "int", i |-> n, s |-> "", items |-> <<>>]
RStr(x) == [t |-> "str", i |-> 0, s |-> x, items |-> <<>>]
\* an item of a list (k is "") or of a table (k is its key)
It(k, raw) == [k |-> k, t |-> raw.t, i |-> raw.i, s |-> raw.s]
RList(xs) == [t |-> "list", i |-> 0, s |-> "",
              items |-> [n \in 1..Len(xs) |-> It("", xs[n])]]
RDict(kvs) == [t |-> "dict", i |-> 0, s |-> "", items |-> kvs]
ItemRaw(it) == [t |-> it.t, i |-> it.i, s |-> it.s, items |-> <<>>]

\* An exception: its type, str(ex), and where it was first raised
\* (the root of its __cause__ chain): origin is the call that raised it and
\* key is the top-level key _update was working on.
Exc(type, msg, origin, key) ==
    [type |-> type, msg |-> msg, origin |-> origin, key |-> key]
NoExc == Exc("none", "", "", "")

ConfigError(msg, cause) == Exc("ConfigError", msg, cause.origin, cause.key)

(***************************************************************************)
(* The type constructors the schema applies to raw values.                 *)
(***************************************************************************)
Digit == <<"0", "1", "2", "3", "4", "5", "6", "7", "8", "9">>

RECURSIVE IntToStr(_)
\* str(n) of an int
IntToStr(n) ==
    IF n < 0 THEN "-" \o IntToStr(0 - n)
    ELSE IF n < 10 THEN Digit[n + 1]
    ELSE IntToStr(n \div 10) \o Digit[(n % 10) + 1]

TypeName(raw) == raw.t

\* int(raw)
Int_(raw) ==
    CASE raw.t = "int" -> [val |-> raw.i, exc |-> NoExc]
      [] raw.t = "str" ->
            IF \E n \in 0..MaxInt : IntToStr(n) = raw.s
            THEN [val |-> CHOOSE n \in 0..MaxInt : IntToStr(n) = raw.s,
                  exc |-> NoExc]
            ELSE [val |-> 0,
                  exc |-> Exc("ValueError",
                              "invalid literal for int() with base 10: '"
                                  \o raw.s \o "'", "_update", "")]
      [] OTHER ->
            [val |-> 0,
             exc |-> Exc("TypeError",
                         "int() argument must be a string, a bytes-like object or a real number, not '"
                             \o TypeName(raw) \o "'", "_update", "")]

\* str(raw) of a scalar
Str_(raw) ==
    CASE raw.t = "int" -> [val |-> IntToStr(raw.i), exc |-> NoExc]
      [] raw.t = "str" -> [val |-> raw.s, exc |-> NoExc]

(***************************************************************************)
(* The record types: Config is the type handed to parse, Inner the type of *)
(* its field outer.  A field's declared type is its annotation: union says *)
(* the annotation is "T | None", origin and args are T's __origin__ and    *)
(* __args__ (origin is None for a plain type, whose name is in name).      *)
(*                                                                         *)
(*   @configclass                                                          *)
(*   class Inner:                                                          *)
(*       inner: int = 0                                                    *)
(*                                                                         *)
(*   @configclass(validator=port_not_zero)                                 *)
(*   class Config:                                                         *)
(*       port: int = 0                                                     *)
(*       tags: list[str] = field(default_factory=list)                     *)
(*       extra: list[str] = field(init=False)                              *)
(*       opt_tags: list[str] | None = None                                 *)
(*       nums: list[int] = field(default_factory=list)                     *)
(*       flags: tuple[str, ...] = ()                                       *)
(*       fset: set[str] = field(default_factory=set)                       *)
(*       limits: dict[str, int] = field(default_factory=dict)              *)
(*       quota: dict[str, int] = field(init=False)                         *)
(*       outer: Inner = field(default_factory=Inner)                       *)
(***************************************************************************)
Plain(name) == [union |-> FALSE, origin |-> None, args |-> <<>>, name |-> name]
Generic(origin, args) ==
    [union |-> FALSE, origin |-> origin, args |-> args, name |-> origin]
Optional(ft) == [ft EXCEPT !.union = TRUE]

\* fields(self): field name -> declared type
Fields(cls) ==
    IF cls = "Inner"
    THEN [inner |-> Plain("int")]
    ELSE [port |-> Plain("int"),
          tags |-> Generic("list", <<"str">>),
          extra |-> Generic("list", <<"str">>),
          opt_tags |-> Optional(Generic("list", <<"str">>)),
          nums |-> Generic("list", <<"int">>),
          flags |-> Generic("tuple", <<"str">>),
          fset |-> Generic("set", <<"str">>),
          limits |-> Generic("dict", <<"str", "int">>),
          quota |-> Generic("dict", <<"str", "int">>),
          outer |-> Plain("Inner")]

\* the first positional parameter of the dataclass initializer
FirstField(cls) == IF cls = "Inner" THEN "inner" ELSE "port"

\* An attribute of an instance: absent, None, or a value.
Absent == [st |-> "absent", v |-> <<>>]
Val(v) == [st |-> "val", v |-> v]
NoneOf(v) == [st |-> "none", v |-> v]
EmptyDict == [k \in {} |-> 0]

\* getattr(self, key, default) of a data attribute
GetAttr(inst, key, default) ==
    IF inst.attrs[key].st = "absent" THEN Val(default) ELSE inst.attrs[key]

\* setattr(self, key, value)
SetAttr(inst, key, value) == [inst EXCEPT !.attrs[key] = Val(value)]

\* The instance old_init builds from the declared defaults, with the empty
\* provenance set _config_init attaches first.
NewInstance(cls) ==
    IF cls = "Inner"
    THEN [attrs |-> [inner |-> Val(0)], set_attrs |-> {}]
    ELSE [attrs |-> [port |-> Val(0),
                     tags |-> Val(<<>>),
                     extra |-> Absent,
                     opt_tags |-> NoneOf(<<>>),
                     nums |-> Val(<<>>),
                     flags |-> Val(<<>>),
                     fset |-> Val({}),
                     limits |-> Val(EmptyDict),
                     quota |-> Absent,
                     outer |-> Val([attrs |-> [inner |-> Val(0)],
                                    set_attrs |-> {}])],
          set_attrs |-> {}]

(***************************************************************************)
(* _update: the coercion and merge engine.                                 *)
(***************************************************************************)
\* iter(value): the items a container constructor or map() draws from a raw
\* value.  A table yields its keys.  A str yields its characters; the
\* documents of this model give container fields strings of at most one
\* character.
Iter(raw) ==
    CASE raw.t = "list" -> [items |-> raw.items, exc |-> NoExc]
      [] raw.t = "dict" ->
            [items |-> [n \in 1..Len(raw.items) |->
                            It("", RStr(raw.items[n].k))],
             exc |-> NoExc]
      [] raw.t = "str" ->
            [items |-> IF raw.s = "" THEN <<>> ELSE <<It("", RStr(raw.s))>>,
             exc |-> NoExc]
      [] OTHER ->
            [items |-> <<>>,
             exc |-> Exc("TypeError",
                         "'" \o TypeName(raw) \o "' object is not iterable",
                         "_update", "")]

RECURSIVE _update(_, _, _, _)
RECURSIVE Construct(_, _)

\* The index of the first item whose construction failed, or Len + 1.
FirstFailure(cs) ==
    IF \E n \in 1..Len(cs) : cs[n].exc # NoExc
    THEN CHOOSE n \in 1..Len(cs) :
            /\ cs[n].exc # NoExc
            /\ \A m \in 1..(n - 1) : cs[m].exc = NoExc
    ELSE Len(cs) + 1

\* What a consumer draining a lazy map gets from the constructions cs: the
\* values produced before the first failure, and that failure.
Drained(cs, stop) ==
    [vals |-> [n \in 1..(stop - 1) |-> cs[n].val],
     exc |-> IF stop > Len(cs) THEN NoExc ELSE cs[stop].exc]

\* map(item_t, value), drained by its consumer
MapItems(item_t, items) ==
    Drained([n \in 1..Len(items) |-> Construct(item_t, ItemRaw(items[n]))],
            FirstFailure([n \in 1..Len(items) |->
                              Construct(item_t, ItemRaw(items[n]))]))

\* tuple(xs)
TupleOf(vals) == vals

\* set(xs)
SetOf(vals) == {vals[n] : n \in 1..Len(vals)}

\* A dict built from keys and values item by item: a later item replaces an
\* earlier one of the same key.
DictOf(ks, vs) ==
    [k \in SetOf(ks) |->
        vs[CHOOSE n \in 1..Len(ks) :
              /\ ks[n] = k
              /\ \A m \in (n + 1)..Len(ks) : ks[m] # k]]

\* The dict comprehension {dk_t(k): dv_t(v) for k, v in value.items()} from
\* its drained keys and values: the key is coerced before the value, item
\* by item, and the first failure ends it.
DictCompOf(ks, vs) ==
    IF ks.exc # NoExc /\ Len(ks.vals) <= Len(vs.vals)
    THEN [val |-> EmptyDict, exc |-> ks.exc]
    ELSE IF vs.exc # NoExc THEN [val |-> EmptyDict, exc |-> vs.exc]
    ELSE [val |-> DictOf(ks.vals, vs.vals), exc |-> NoExc]

\* the keys of value.items(), as items
KeyItems(items) == [n \in 1..Len(items) |-> It("", RStr(items[n].k))]

DictComp(dk_t, dv_t, items) ==
    DictCompOf(MapItems(dk_t, KeyItems(items)), MapItems(dv_t, items))

\* DictUpdate letting the earlier value of a key stand
DictUpdate_KeepOld(cur, new) ==
    [k \in (DOMAIN cur) \cup (DOMAIN new) |->
        IF k \in DOMAIN cur THEN cur[k] ELSE new[k]]

\* current_dict.update(new)
DictUpdate(cur, new) ==
    [k \in (DOMAIN cur) \cup (DOMAIN new) |->
        IF k \in DOMAIN new THEN new[k] ELSE cur[k]]

\* current_list.extend(xs)
ListExtend(cur, vals) == cur \o vals

\* a table as the toml_dict _update walks
AsTomlDict(items) ==
    [n \in 1..Len(items) |-> [key |-> items[n].k, val |-> ItemRaw(items[n])]]

\* what a call that built inst and raised ex hands back
Built(r) == [val |-> r.self, exc |-> r.exc]

\* _config_init: the initializer configclass installs.  A dict as first
\* positional argument is applied with _update after old_init; any other
\* first argument goes to old_init, which stores it in the first field.
ConfigInit(cls, raw) ==
    IF raw.t = "dict"
    THEN Built(_update(cls, NewInstance(cls), AsTomlDict(raw.items), 1))
    ELSE [val |-> SetAttr(NewInstance(cls), FirstField(cls), raw),
          exc |-> NoExc]

\* value_t(value): the call of a declared type on a raw value
Construct(type, raw) ==
    CASE type = "int" -> Int_(raw)
      [] type = "str" -> Str_(raw)
      [] OTHER -> ConfigInit(type, raw)

\* MarkSet forgetting the keys marked before
MarkSet_Replace(set_attrs, key) == {key}

\* set_attrs.add(key)
MarkSet(set_attrs, key) == set_attrs \cup {key}

AttributeError(msg, key) == Exc("AttributeError", msg, "_update", key)

\* current_list.extend(map(item_t, value)); setattr(self, key, current_list)
\* with the list cur and the drained map m.  extend mutates the list in
\* place, also when map fails part-way; the list is the instance's own
\* unless getattr fell back to its default.
ExtendWith(inst, key, cur, m) ==
    IF m.exc # NoExc
    THEN [self |-> IF inst.attrs[key].st = "val"
                   THEN SetAttr(inst, key, ListExtend(cur.v, m.vals))
                   ELSE inst,
          exc |-> m.exc]
    ELSE [self |-> SetAttr(inst, key, ListExtend(cur.v, m.vals)),
          exc |-> NoExc]

\* The list branch, with the iteration it of the raw value.
UpdateListOf(inst, key, item_t, cur, it) ==
    IF cur.st = "none"
    THEN [self |-> inst,
          exc |-> AttributeError("'NoneType' object has no attribute 'extend'",
                                 key)]
    ELSE IF it.exc # NoExc THEN [self |-> inst, exc |-> it.exc]
    ELSE ExtendWith(inst, key, cur, MapItems(item_t, it.items))

\* The list branch: extend the list the attribute holds, or a new one.
UpdateList(inst, key, item_t, value) ==
    UpdateListOf(inst, key, item_t, GetAttr(inst, key, <<>>), Iter(value))

\* ReplaceTuple adding to the tuple the attribute holds
ReplaceTuple_Accumulate(inst, key, m) ==
    IF m.exc # NoExc THEN [self |-> inst, exc |-> m.exc]
    ELSE [self |-> SetAttr(inst, key, inst.attrs[key].v \o TupleOf(m.vals)),
          exc |-> NoExc]

\* setattr(self, key, tuple(m)) with the drained map m
ReplaceTuple(inst, key, m) ==
    IF m.exc # NoExc THEN [self |-> inst, exc |-> m.exc]
    ELSE [self |-> SetAttr(inst, key, TupleOf(m.vals)), exc |-> NoExc]

UpdateTupleOf(inst, key, item_t, it) ==
    IF it.exc # NoExc THEN [self |-> inst, exc |-> it.exc]
    ELSE ReplaceTuple(inst, key, MapItems(item_t, it.items))

\* The tuple branch: a new tuple replaces the attribute.
UpdateTuple(inst, key, item_t, value) ==
    UpdateTupleOf(inst, key, item_t, Iter(value))

\* setattr(self, key, set(m)) with the drained map m
ReplaceSet(inst, key, m) ==
    IF m.exc # NoExc THEN [self |-> inst, exc |-> m.exc]
    ELSE [self |-> SetAttr(inst, key, SetOf(m.vals)), exc |-> NoExc]

UpdateSetOf(inst, key, item_t, it) ==
    IF it.exc # NoExc THEN [self |-> inst, exc |-> it.exc]
    ELSE ReplaceSet(inst, key, MapItems(item_t, it.items))

\* The set branch: a new set replaces the attribute.
UpdateSet(inst, key, item_t, value) ==
    UpdateSetOf(inst, key, item_t, Iter(value))

\* current_dict.update(d); setattr(self, key, current_dict) with the dict
\* cur and the comprehension's outcome d
MergeDict(inst, key, cur, d) ==
    IF d.exc # NoExc THEN [self |-> inst, exc |-> d.exc]
    ELSE [self |-> SetAttr(inst, key, DictUpdate(cur.v, d.val)),
          exc |-> NoExc]

UpdateDictOf(inst, key, dk_t, dv_t, cur, value) ==
    IF cur.st = "none"
    THEN [self |-> inst,
          exc |-> AttributeError("'NoneType' object has no attribute 'update'",
                                 key)]
    ELSE IF value.t # "dict"
    THEN [self |-> inst,
          exc |-> AttributeError("'" \o TypeName(value)
                                     \o "' object has no attribute 'items'",
                                 key)]
    ELSE MergeDict(inst, key, cur, DictComp(dk_t, dv_t, value.items))

\* The dict branch: update the dict the attribute holds, or a new one.
UpdateDict(inst, key, dk_t, dv_t, value) ==
    UpdateDictOf(inst, key, dk_t, dv_t, GetAttr(inst, key, EmptyDict), value)

\* setattr(self, key, c) with the outcome c of value_t(value)
AssignScalar(inst, key, c) ==
    IF c.exc # NoExc THEN [self |-> inst, exc |-> c.exc]
    ELSE [self |-> SetAttr(inst, key, c.val), exc |-> NoExc]

\* The else branch: the declared type called on the raw value.
UpdateScalar(inst, key, value_t, value) ==
    AssignScalar(inst, key, Construct(value_t, value))

\* FieldPrefix with the separator of the second except clause in both
FieldPrefix_Colon(key, ex) == key \o ": " \o ex.msg

\* The prefix an except clause of _update puts before str(ex).
FieldPrefix(key, ex) ==
    IF ex.type = "ConfigError" THEN key \o "." \o ex.msg
    ELSE key \o ": " \o ex.msg

\* The branches of the try statement of _update, chosen by the declared
\* type's __origin__ ("T | None" was unwrapped to T by the caller).
Dispatch(inst, key, value_t, value) ==
    CASE value_t.origin = "list" ->
            UpdateList(inst, key, value_t.args[1], value)
      [] value_t.origin = "tuple" ->
            UpdateTuple(inst, key, value_t.args[1], value)
      [] value_t.origin = "set" ->
            UpdateSet(inst, key, value_t.args[1], value)
      [] value_t.origin = "dict" ->
            UpdateDict(inst, key, value_t.args[1], value_t.args[2], value)
      [] OTHER -> UpdateScalar(inst, key, value_t.name, value)

\* The end of the try statement for the outcome r of its branch: the key is
\* marked as set, or an except clause turns the failure into a ConfigError.
Settle(key, r) ==
    IF r.exc = NoExc
    THEN [self |-> [r.self EXCEPT
                       !.set_attrs = MarkSet(r.self.set_attrs, key)],
          exc |-> NoExc]
    ELSE IF r.exc.type \in {"ConfigError", "KeyError", "ValueError"}
    THEN [self |-> r.self,
          exc |-> ConfigError(FieldPrefix(key, r.exc),
                              [r.exc EXCEPT !.key = key])]
    ELSE [self |-> r.self, exc |-> [r.exc EXCEPT !.key = key]]

\* The body of the loop of _update for one key of fields(self).
UpdateKey(cls, inst, key, value) ==
    Settle(key, Dispatch(inst, key, Fields(cls)[key], value))

\* the loop of _update goes on after the outcome r of item n
Continue(cls, r, toml_dict, n) ==
    IF r.exc # NoExc THEN r ELSE _update(cls, r.self, toml_dict, n + 1)

\* _update(self, toml_dict) from the n-th item of toml_dict on: the instance
\* as the call leaves it, and the exception it raises.
_update(cls, inst, toml_dict, n) ==
    IF n > Len(toml_dict) THEN [self |-> inst, exc |-> NoExc]
    ELSE IF toml_dict[n].key \notin DOMAIN Fields(cls)
    THEN [self |-> inst,
          exc |-> Exc("KeyError",
                      "'Unknown key " \o toml_dict[n].key \o "'",
                      "_update", toml_dict[n].key)]
    ELSE Continue(cls,
                  UpdateKey(cls, inst, toml_dict[n].key, toml_dict[n].val),
                  toml_dict, n)

(***************************************************************************)
(* The file system and the arguments of parse.                             *)
(***************************************************************************)
Entry(key, raw) == [key |-> key, val |-> raw]
Toml(doc) == [ok |-> TRUE, doc |-> doc]
Malformed == [ok |-> FALSE, doc |-> <<>>]

\* What the file at conf_path may hold.
BaseContents ==
    { Toml(<<Entry("port", RInt(8)),
             Entry("tags", RList(<<RStr("a")>>)),
             Entry("flags", RList(<<RStr("x"), RStr("y")>>)),
             Entry("fset", RList(<<RStr("x"), RStr("y")>>)),
             Entry("limits", RDict(<<It("cpu", RInt(1))>>))>>),
      Toml(<<Entry("tags", RList(<<RStr("t")>>)),
             Entry("port", RStr("x"))>>),
      Toml(<<Entry("bogus", RInt(1))>>),
      Toml(<<Entry("opt_tags", RList(<<RStr("a")>>))>>),
      Toml(<<Entry("outer", RDict(<<It("inner", RStr("x"))>>))>>),
      Toml(<<Entry("outer", RDict(<<It("bogus", RInt(1))>>))>>),
      Toml(<<Entry("port", RList(<<RInt(1)>>))>>),
      Toml(<<Entry("nums", RList(<<RStr("1"), RStr("x")>>))>>),
      Toml(<<Entry("flags", RStr("z")),
             Entry("outer", RInt(5)),
             Entry("limits", RList(<<RInt(1)>>))>>),
      Malformed }

\* File names are strings over Alphabet, kept as their characters.
Alphabet == <<"a", "b">>
Names == {<<"a">>, <<"a", "a">>, <<"a", "b">>, <<"b">>}

RECURSIVE NameStr(_)
\* the str a file name is
NameStr(name) ==
    IF name = <<>> THEN "" ELSE Head(name) \o NameStr(Tail(name))

\* What the file of each name in the overlay directory holds.
DirDoc(name) ==
    CASE name = <<"a">> ->
            <<Entry("tags", RList(<<RInt(1), RStr("b")>>)),
              Entry("extra", RList(<<RStr("e")>>)),
              Entry("limits", RDict(<<It("mem", RStr("2"))>>)),
              Entry("flags", RList(<<RStr("z")>>)),
              Entry("fset", RList(<<RStr("z"), RStr("z")>>)),
              Entry("port", RStr("3"))>>
      [] name = <<"a", "a">> ->
            <<Entry("limits", RDict(<<It("cpu", RStr("9"))>>)),
              Entry("quota", RDict(<<It("q", RStr("1"))>>)),
              Entry("tags", RList(<<RStr("c")>>)),
              Entry("nums", RList(<<RStr("1"), RInt(2)>>)),
              Entry("flags", RList(<<RInt(7), RStr("w")>>))>>
      [] name = <<"a", "b">> ->
            <<Entry("port", RInt(0)),
              Entry("outer", RDict(<<It("inner", RStr("5"))>>)),
              Entry("quota", RDict(<<It("q", RInt(2)), It("r", RStr("3"))>>)),
              Entry("extra", RList(<<RStr("f")>>))>>
      [] OTHER ->
            <<Entry("fset", RList(<<RStr("q")>>)),
              Entry("limits", RDict(<<It("mem", RInt(4)),
                                      It("cpu", RStr("x"))>>))>>

Ord(c) == CHOOSE n \in 1..Len(Alphabet) : Alphabet[n] = c

RECURSIVE StrLess(_, _)
\* a < b of two str: by the first character that differs, a proper prefix first
StrLess(a, b) ==
    IF b = <<>> THEN FALSE
    ELSE IF a = <<>> THEN TRUE
    ELSE IF Head(a) # Head(b) THEN Ord(Head(a)) < Ord(Head(b))
    ELSE StrLess(Tail(a), Tail(b))

RECURSIVE Insert(_, _)
Insert(x, xs) ==
    IF xs = <<>> THEN <<x>>
    ELSE IF StrLess(Head(xs), x) THEN <<Head(xs)>> \o Insert(x, Tail(xs))
    ELSE <<x>> \o xs

RECURSIVE Sorted(_)
\* sorted(xs) of a list of str
Sorted(xs) == IF xs = <<>> THEN <<>> ELSE Insert(Head(xs), Sorted(Tail(xs)))

\* listdir(conf_d_path)
ListDirNames == [n \in 1..Len(dir_listing) |-> dir_listing[n].name]

DirEntry(name) ==
    dir_listing[CHOOSE n \in 1..Len(dir_listing) : dir_listing[n].name = name]

\* isfile(file_path): the name is looked up as given, from the working
\* directory of the process
IsFile(name) == DirEntry(name).in_cwd

NoInstance == [attrs |-> <<>>, set_attrs |-> {}]
NoSnapshot == [taken |-> FALSE, v |-> {}]

Listings ==
    { [n \in 1..Len(names) |->
          [name |-> names[n], kind |-> kinds[n], in_cwd |-> cwd[n]]] :
        <<names, kinds, cwd>> \in
            UNION { {ns \in [1..k -> Names] :
                        \A i, j \in 1..k : i # j => ns[i] # ns[j]}
                    \X [1..k -> {"file", "dir"}]
                    \X [1..k -> BOOLEAN] : k \in 0..MaxEntries } }

Init ==
    /\ \/ /\ is_configclass = TRUE
          /\ \/ conf_path = None /\ base_doc = Malformed
             \/ conf_path = "missing.toml" /\ base_doc = Malformed
             \/ conf_path = "base.toml" /\ base_doc \in BaseContents
          /\ \/ conf_d_path \in {None, "nodir"} /\ dir_listing = <<>>
             \/ conf_d_path = "conf.d" /\ dir_listing \in Listings
          /\ ignore_missing \in BOOLEAN
          /\ validator \in {None, "function", "callable"}
       \/ /\ is_configclass = FALSE
          /\ conf_path = None /\ base_doc = Malformed
          /\ conf_d_path = None /\ dir_listing = <<>>
          /\ ignore_missing = FALSE
          /\ validator = None
    /\ pc = "start"
    /\ self = NoInstance
    /\ file_path = None
    /\ todo = <<>>
    /\ exc = NoExc
    /\ result = "none"
    /\ applied = <<>>
    /\ validated = 0
    /\ snapshot = NoSnapshot

(***************************************************************************)
(* parse, step by step.                                                    *)
(***************************************************************************)
\* FileNotFoundError of open() or listdir()
NotFound(path, origin) ==
    Exc("FileNotFoundError",
        "[Errno 2] No such file or directory: '" \o path \o "'", origin, "")

\* what the outcome r of _update leaves behind in parse
Applied(path, doc, next, r) ==
    /\ applied' = Append(applied, [file |-> path, doc |-> doc])
    /\ self' = r.self
    /\ exc' = r.exc
    /\ pc' = IF r.exc = NoExc THEN next ELSE "except"

\* _update(self, load(file)) inside the try statement of parse, for the file
\* named path; next is where parse goes on when it raises nothing
ApplyDocument(path, doc, next) ==
    Applied(path, doc, next, _update("Config", self, doc, 1))

\* the configclass check, self = cls() and file_path = conf_path
Construct_ ==
    /\ pc = "start"
    /\ IF is_configclass
       THEN /\ self' = NewInstance("Config")
            /\ file_path' = conf_path
            /\ pc' = "base"
            /\ UNCHANGED <<exc, result>>
       ELSE /\ exc' = Exc("TypeError", "parse() requires configclass type",
                          "parse", "")
            /\ result' = "raised"
            /\ pc' = "done"
            /\ UNCHANGED <<self, file_path>>
    /\ UNCHANGED <<env, todo, applied, validated, snapshot>>

\* if conf_path is not None: open it, load it, _update
LoadBase ==
    /\ pc = "base"
    /\ IF conf_path = None
       THEN pc' = "dir" /\ UNCHANGED <<self, exc, applied>>
       ELSE IF conf_path # "base.toml"
       THEN /\ exc' = NotFound(conf_path, "open")
            /\ pc' = "except"
            /\ UNCHANGED <<self, applied>>
       ELSE IF ~base_doc.ok
       THEN /\ exc' = Exc("TOMLDecodeError",
                          "Invalid statement (at line 1, column 1)",
                          "load", "")
            /\ pc' = "except"
            /\ UNCHANGED <<self, applied>>
       ELSE ApplyDocument(conf_path, base_doc.doc, "dir")
    /\ UNCHANGED <<env, file_path, todo, result, validated, snapshot>>

\* if conf_d_path is not None: sorted(listdir(conf_d_path))
ListDir ==
    /\ pc = "dir"
    /\ IF conf_d_path = None
       THEN pc' = "validate" /\ UNCHANGED <<todo, exc>>
       ELSE IF conf_d_path # "conf.d"
       THEN /\ exc' = NotFound(conf_d_path, "listdir")
            /\ pc' = "except"
            /\ UNCHANGED todo
       ELSE /\ todo' = Sorted(ListDirNames)
            /\ pc' = "loop"
            /\ UNCHANGED exc
    /\ UNCHANGED <<env, self, file_path, result, applied, validated, snapshot>>

\* One turn of the for loop over the sorted listing: skip what isfile
\* rejects, open the file under conf_d_path, load it, _update.
OverlayFile ==
    /\ pc = "loop"
    /\ todo # <<>>
    /\ LET name == Head(todo)
       IN  /\ file_path' = NameStr(name)
           /\ todo' = Tail(todo)
           /\ IF ~IsFile(name)
              THEN pc' = "loop" /\ UNCHANGED <<self, exc, applied>>
              ELSE IF DirEntry(name).kind = "dir"
              THEN /\ exc' = Exc("IsADirectoryError",
                                 "[Errno 21] Is a directory: '" \o conf_d_path
                                     \o "/" \o NameStr(name) \o "'",
                                 "open", "")
                   /\ pc' = "except"
                   /\ UNCHANGED <<self, applied>>
              ELSE ApplyDocument(NameStr(name), DirDoc(name), "loop")
    /\ UNCHANGED <<env, result, validated, snapshot>>

\* the for loop is exhausted
LoopEnd ==
    /\ pc = "loop"
    /\ todo = <<>>
    /\ pc' = "validate"
    /\ UNCHANGED <<env, self, file_path, todo, exc, result, applied,
                   validated, snapshot>>

\* The validator of this model's record type: it rejects port == 0.
Rejects(inst) == inst.attrs.port.v = 0

\* validator = getattr(self, VALIDATE_DUNDER, None); validator(self).
\* The attribute lives on the class and is read through the instance: a
\* plain function comes back bound to self, so validator(self) hands it
\* the instance twice; a callable that is no function is called with the
\* instance alone.
Validate ==
    /\ pc = "validate"
    /\ IF validator = None
       THEN pc' = "return" /\ UNCHANGED <<exc, validated>>
       ELSE IF validator = "function"
       THEN /\ exc' = Exc("TypeError",
                          "port_not_zero() takes 1 positional argument but 2 were given",
                          "validator", "")
            /\ pc' = "except"
            /\ UNCHANGED validated
       ELSE /\ validated' = validated + 1
            /\ IF Rejects(self)
               THEN /\ exc' = Exc("ConfigError", "port must not be 0",
                                  "validator", "")
                    /\ pc' = "except"
               ELSE pc' = "return" /\ UNCHANGED exc
    /\ UNCHANGED <<env, self, file_path, todo, result, applied, snapshot>>

\* "In file {file_path}: {ex}"
InFile(path, ex) == "In file " \o path \o ": " \o ex.msg

\* "Error parsing the file {file_path}: {ex}"
ErrorParsing(path, ex) == "Error parsing the file " \o path \o ": " \o ex.msg

\* The except clauses of parse; an exception none of them names leaves
\* parse as it is.
Except ==
    /\ pc = "except"
    /\ CASE exc.type = "FileNotFoundError" ->
              IF ~ignore_missing
              THEN pc' = "done" /\ result' = "raised" /\ UNCHANGED exc
              ELSE pc' = "return" /\ exc' = NoExc /\ UNCHANGED result
         [] exc.type = "ConfigError" ->
              /\ exc' = ConfigError(InFile(file_path, exc), exc)
              /\ pc' = "done"
              /\ result' = "raised"
         [] exc.type = "TOMLDecodeError" ->
              /\ exc' = ConfigError(ErrorParsing(file_path, exc), exc)
              /\ pc' = "done"
              /\ result' = "raised"
         [] OTHER -> pc' = "done" /\ result' = "raised" /\ UNCHANGED exc
    /\ UNCHANGED <<env, self, file_path, todo, applied, validated, snapshot>>

\* return self
Return ==
    /\ pc = "return"
    /\ pc' = "done"
    /\ result' = "returned"
    /\ UNCHANGED <<env, self, file_path, todo, exc, applied, validated,
                   snapshot>>

\* frozenset(xs)
FrozenSet(xs) == xs

\* configclass_attrs_set(cfg), called on the instance parse returned
configclass_attrs_set ==
    /\ pc = "done"
    /\ result = "returned"
    /\ ~snapshot.taken
    /\ snapshot' = [taken |-> TRUE, v |-> FrozenSet(self.set_attrs)]
    /\ UNCHANGED <<env, pc, self, file_path, todo, exc, result, applied,
                   validated>>

Next ==
    \/ Construct_
    \/ LoadBase
    \/ ListDir
    \/ OverlayFile
    \/ LoopEnd
    \/ Validate
    \/ Except
    \/ Return
    \/ configclass_attrs_set

Spec == Init /\ [][Next]_vars

(***************************************************************************)
(* What the documents applied so far say, read off the history.            *)
(***************************************************************************)
\* no call of _update has raised
NoUpdateFailed == exc.origin # "_update"

Constructed == pc # "start" /\ is_configclass

Mentions(doc, key) == \E n \in 1..Len(doc) : doc[n].key = key

\* the raw value a document gives a key
RawOf(doc, key) == doc[CHOOSE n \in 1..Len(doc) : doc[n].key = key].val

\* the applied documents that mention key, in the order of application
Mentioning(key) ==
    SelectSeq(applied, LAMBDA a : Mentions(a.doc, key))

\* the items of a raw list, each coerced with the item type on its own
CoercedItems(item_t, raw) ==
    [n \in 1..Len(raw.items) |-> Construct(item_t, ItemRaw(raw.items[n])).val]

RECURSIVE ConcatAll(_)
ConcatAll(seqs) ==
    IF seqs = <<>> THEN <<>> ELSE Head(seqs) \o ConcatAll(Tail(seqs))

\* the concatenation of what the applied documents contribute to a list field
Contributions(key, item_t) ==
    ConcatAll([n \in 1..Len(Mentioning(key)) |->
                  CoercedItems(item_t, RawOf(Mentioning(key)[n].doc, key))])

AllCoerce(item_t, raw) ==
    \A n \in 1..Len(raw.items) :
        Construct(item_t, ItemRaw(raw.items[n])).exc = NoExc

LastApplied == applied[Len(applied)]

\* the overlay files applied so far, in the order of application
OverlayApplied ==
    SelectSeq([n \in 1..Len(applied) |-> applied[n].file],
              LAMBDA f : f # conf_path)

\* the names of the regular files of the overlay directory
RegularFiles ==
    {dir_listing[n].name : n \in {m \in 1..Len(dir_listing) :
                                      dir_listing[m].kind = "file"}}

\* a sequence of names in strictly ascending lexicographic order
Ascending(names) ==
    \A i, j \in 1..Len(names) : i < j => StrLess(names[i], names[j])

(***************************************************************************)
(* C1.  An overlay directory's regular files are each applied exactly     *)
(* once, after the base document, in ascending lexicographic order of     *)
(* their names whatever the order of the listing; only entries that are   *)
(* not regular files are skipped.  Stated at the end of the loop: the     *)
(* overlay files applied are exactly the regular files, ascending.        *)
(***************************************************************************)
C1_EveryRegularFileAppliedInOrder ==
    (pc = "validate" /\ conf_d_path = "conf.d") =>
        \E names \in [1..Cardinality(RegularFiles) -> RegularFiles] :
            /\ Ascending(names)
            /\ OverlayApplied = [n \in 1..Len(names) |-> NameStr(names[n])]

ListFields == {"tags", "extra", "opt_tags", "nums"}

(***************************************************************************)
(* C2.  Applying a document that sets a list-of-T field, optional or not, *)
(* appends the coerced items to the list the field holds, starting from   *)
(* an empty list when it holds none: setting the field fails only when an *)
(* item does not coerce, and while no document has failed the field       *)
(* equals the concatenation of the documents' coerced contributions.      *)
(***************************************************************************)
C2_ListFieldsAccumulate ==
    Constructed =>
        \A f \in ListFields :
            LET item_t == Fields("Config")[f].args[1]
            IN  /\ (exc.origin = "_update" /\ exc.key = f) =>
                        ~AllCoerce(item_t, RawOf(LastApplied.doc, f))
                /\ (NoUpdateFailed /\ Mentioning(f) # <<>>) =>
                        self.attrs[f] = Val(Contributions(f, item_t))

DictFields == {"limits", "quota"}

\* the applied documents that give the dict field the (str) key k
Giving(key, k) ==
    SelectSeq(Mentioning(key),
              LAMBDA a : \E n \in 1..Len(RawOf(a.doc, key).items) :
                             RawOf(a.doc, key).items[n].k = k)

ItemOf(raw, k) ==
    raw.items[CHOOSE n \in 1..Len(raw.items) : raw.items[n].k = k]

LastMentioning(key) == Mentioning(key)[Len(Mentioning(key))]

(***************************************************************************)
(* C4.  A tuple-of-T or set-of-T field holds, while no document has       *)
(* failed, the coerced items of the last applied document that mentions   *)
(* it and nothing of the earlier ones (its default when none does).       *)
(***************************************************************************)
C4_TupleAndSetFieldsReplace ==
    (Constructed /\ NoUpdateFailed) =>
        /\ self.attrs.flags =
             Val(IF Mentioning("flags") = <<>> THEN <<>>
                 ELSE CoercedItems("str", RawOf(LastMentioning("flags").doc,
                                                "flags")))
        /\ self.attrs.fset =
             Val(IF Mentioning("fset") = <<>> THEN {}
                 ELSE LET xs == CoercedItems("str",
                                    RawOf(LastMentioning("fset").doc, "fset"))
                      IN  {xs[n] : n \in 1..Len(xs)})

\* base gives flags = [x, y] and fset = [x, y], then a gives [z] and [z, z]
C4_Witness ==
    /\ result = "returned"
    /\ Len(Mentioning("flags")) = 2
    /\ Len(Mentioning("fset")) = 2
    /\ self.attrs.flags.v = <<"z">>
    /\ self.attrs.fset.v = {"z"}

(***************************************************************************)
(* C5.  A load that fails fails with a ConfigError, except for a not-found *)
(* failure with ignore_missing false (and the TypeError for a type that   *)
(* is no configclass).                                                     *)
(***************************************************************************)
C5_FailuresAreConfigErrors ==
    result = "raised" =>
        \/ exc.type = "ConfigError"
        \/ exc.type = "FileNotFoundError" /\ ~ignore_missing
        \/ exc.origin = "parse"

(***************************************************************************)
(* C6.  With ignore_missing true and a base path that does not exist, the *)
(* load goes on as without a base path: the overlay files are applied and *)
(* the validator is invoked before the instance is returned.               *)
(***************************************************************************)
C6_MissingBaseIsSkipped ==
    (result = "returned" /\ ignore_missing /\ conf_path = "missing.toml") =>
        /\ validator = "callable" => validated = 1
        /\ \A n \in 1..Len(dir_listing) :
              (dir_listing[n].kind = "file" /\ dir_listing[n].in_cwd) =>
                  \E m \in 1..Len(applied) :
                      applied[m].file = NameStr(dir_listing[n].name)

(***************************************************************************)
(* C7.  With a validator, a load invokes it once with the instance as its *)
(* only argument after the last document: the load fails at validation    *)
(* only by the validator rejecting the instance, and an instance is       *)
(* returned only after the validator accepted it.                          *)
(***************************************************************************)
C7_ReturnedInstancesAreValidated ==
    /\ (result = "returned" /\ validator # None) =>
            validated = 1 /\ ~Rejects(self)
    /\ (result = "raised" /\ exc.origin = "validator") =>
            validated = 1 /\ Rejects(self) /\ exc.type = "ConfigError"

(***************************************************************************)
(* C8.  A ConfigError of the validator reaches the caller with the        *)
(* validator's message, without a file path put before it.                 *)
(***************************************************************************)
C8_ValidationErrorHasNoFilePrefix ==
    (result = "raised" /\ exc.origin = "validator"
                       /\ exc.type = "ConfigError") =>
        exc.msg = "port must not be 0"

MentionedKeys ==
    UNION { {applied[n].doc[m].key : m \in 1..Len(applied[n].doc)} :
            n \in 1..Len(applied) }

(***************************************************************************)
(* C9.  The provenance set is empty at construction and only grows; after *)
(* a successful load it is exactly the set of keys of the applied         *)
(* documents, and configclass_attrs_set returns that set and leaves the   *)
(* instance's own set as it was.                                           *)
(***************************************************************************)
C9_ProvenanceIsTheKeysApplied ==
    /\ [](pc = "base" => self.set_attrs = {})
    /\ [](result = "returned" =>
            /\ self.set_attrs = MentionedKeys
            /\ snapshot.taken => snapshot.v = MentionedKeys)
    /\ [][pc # "start" => self.set_attrs \subseteq self'.set_attrs]_vars

\* port is set by the base document and overwritten by the overlay file a;
\* nums and outer are mentioned by no document
C9_Witness ==
    /\ result = "returned"
    /\ snapshot.taken
    /\ Len(Mentioning("port")) = 2
    /\ "port" \in snapshot.v
    /\ "nums" \notin snapshot.v
    /\ "extra" \in snapshot.v

(***************************************************************************)
(* The message chain of a coercion failure, read off the document that   *)
(* was being applied.                                                      *)
(***************************************************************************)
CoercionFailure ==
    result = "raised" /\ exc.type = "ConfigError" /\ exc.origin = "_update"

\* the first item of a raw container that the type rejects
FirstRejected(type, raw) ==
    raw.items[CHOOSE n \in 1..Len(raw.items) :
                /\ Construct(type, ItemRaw(raw.items[n])).exc # NoExc
                /\ \A m \in 1..(n - 1) :
                     Construct(type, ItemRaw(raw.items[m])).exc = NoExc]

\* the first item of a raw table that the nested record rejects: a key that
\* is no field of it, or a value its field's type rejects
FirstRejectedField(cls, raw) ==
    raw.items[CHOOSE n \in 1..Len(raw.items) :
                /\ \/ raw.items[n].k \notin DOMAIN Fields(cls)
                   \/ Construct(Fields(cls)[raw.items[n].k].name,
                                ItemRaw(raw.items[n])).exc # NoExc
                /\ \A m \in 1..(n - 1) :
                     /\ raw.items[m].k \in DOMAIN Fields(cls)
                     /\ Construct(Fields(cls)[raw.items[m].k].name,
                                  ItemRaw(raw.items[m])).exc = NoExc]

RECURSIVE Dotted(_)
Dotted(segments) ==
    IF Len(segments) = 1 THEN Head(segments)
    ELSE Head(segments) \o "." \o Dotted(Tail(segments))

\* The path and the message of the failure of the document applied last, at
\* the top-level field key with the raw value raw.  dict_key says whether the
\* key of a dict item is a segment of the path.
FailureOf(key, raw, dict_key) ==
    LET ft == Fields("Config")[key]
    IN  CASE ft.origin \in {"list", "tuple", "set"} ->
               [path |-> <<key>>,
                msg |-> Construct(ft.args[1],
                                  ItemRaw(FirstRejected(ft.args[1], raw))).exc.msg]
          [] ft.origin = "dict" ->
               [path |-> IF dict_key
                         THEN <<key, FirstRejected(ft.args[2], raw).k>>
                         ELSE <<key>>,
                msg |-> Construct(ft.args[2],
                                  ItemRaw(FirstRejected(ft.args[2], raw))).exc.msg]
          [] ft.name = "Inner" ->
               LET it == FirstRejectedField("Inner", raw)
               IN  IF it.k \notin DOMAIN Fields("Inner")
                   THEN [path |-> <<key>>,
                         msg |-> "'Unknown key " \o it.k \o "'"]
                   ELSE [path |-> <<key, it.k>>,
                         msg |-> Construct(Fields("Inner")[it.k].name,
                                           ItemRaw(it)).exc.msg]
          [] OTHER ->
               [path |-> <<key>>, msg |-> Construct(ft.name, raw).exc.msg]

Chain(file, failure) ==
    "In file " \o file \o ": " \o Dotted(failure.path) \o ": " \o failure.msg

(***************************************************************************)
(* C10, as stated.  The message of a coercion failure is one chain built  *)
(* from the inside out: the path of the failure, its segments joined by   *)
(* ".", then                                                               *)
(* ": " and the message of the failure, and outermost "In file <file>: "  *)
(* with the file of the document that was being applied.  The path starts *)
(* with the top-level field; a failure in field inner of the nested       *)
(* record of field outer has the path outer.inner, and a failure of the   *)
(* dict value under key innerkey of field fieldname the path              *)
(* fieldname.innerkey.                                                     *)
(***************************************************************************)
C10_ChainWithDictKey ==
    CoercionFailure =>
        exc.msg = Chain(LastApplied.file,
                        FailureOf(exc.key, RawOf(LastApplied.doc, exc.key),
                                  TRUE))

(***************************************************************************)
(* C10, as amended.  The message of a coercion failure is one chain built *)
(* from the inside out: the path of the failure, its segments joined by   *)
(* ".", then                                                               *)
(* ": " and the message of the failure, and outermost "In file <file>: "  *)
(* with the file of the document that was being applied.  The path starts *)
(* with the top-level field; a failure in field inner of the nested       *)
(* record of field outer has the path outer.inner, and a failure of a     *)
(* dict value the path of its field alone, whatever its key.              *)
(***************************************************************************)
C10_ChainOfFailure ==
    CoercionFailure =>
        exc.msg = Chain(LastApplied.file,
                        FailureOf(exc.key, RawOf(LastApplied.doc, exc.key),
                                  FALSE))

\* the overlay file b, applied after the base document, gives limits a value
\* int rejects under the key cpu
C10_Witness ==
    /\ CoercionFailure
    /\ Len(applied) = 2
    /\ LastApplied.file = "b"
    /\ exc.key = "limits"
    /\ exc.msg = "In file b: limits: invalid literal for int() with base 10: 'x'"

====
